---- MODULE Spec2Model ----
(***************************************************************************)
(* Model of cm4.data.data.Data (src/cm4/data/data.py): the facade that     *)
(* picks a storage provider per command and keeps the metadata database    *)
(* in step with it.                                                        *)
(*                                                                         *)
(* A behaviour is the life of one Data object: constructed, configured     *)
(* once from a configuration document, then any sequence of commands.  The *)
(* command line runs one command per process; a later process configured   *)
(* from the same document holds the same _db and _providers, and the       *)
(* metadata database (files) and the stored objects live outside the       *)
(* process, so a sequence of invocations is a sequence of commands here.   *)
(*                                                                         *)
(* LocalDBProvider, LocalStorageProvider and AzureStorageProvider are      *)
(* imported by data.py but are not part of the sources at hand; their      *)
(* operators below follow the contracts of spec.md sections 3, 4.1, 4.2.   *)
(***************************************************************************)
EXTENDS Naturals, Sequences, FiniteSets

\* ------------------------------------------------------------------ bounds

\* The longest source file, in bytes.
MaxLen == 2

\* The contents a source file may have: for every length from 1 to MaxLen,
\* the file of that many bytes (each byte 0).  Two contents differ in their
\* bytes and in their size.
Contents == UNION {[1..n -> {0}] : n \in 1..MaxLen}

\* Local paths given to add: two directories, one name in both.
Paths == {<<"a", "x">>, <<"b", "x">>, <<"a", "y">>}

\* The SERVICE argument of add; "None" is the absent argument, "s3" a name
\* data.py knows no provider for.
Providers == {"None", "local", "azure", "s3"}

\* The DEST_FOLDER argument of get; "None" is the absent argument.
DestFolders == {"None", "out"}

\* ------------------------------------------------------------ configuration

\* The storage services data.py knows (lines 49 and 58).
Backends == {"local", "azure"}

\* The "data" section of cloudmesh4.yaml, as far as config() reads it:
\*   db      default.db                       ("local" or anything else)
\*   local   service.local.CMDATA_STORAGE_FOLDER is set
\*   azure   service.azure: "absent", present without both credentials
\*           ("nokey"), or present with account and key ("full")
\*   service default.service
Confs ==
    [db : {"local", "other"}, local : BOOLEAN,
     azure : {"absent", "nokey", "full"}, service : Backends]

NoConf == [db |-> "None", local |-> FALSE, azure |-> "absent", service |-> "None"]

\* ------------------------------------------------------------------- state

VARIABLES
    phase,       \* "constructed", "configured", or "failed" (config raised)
    _conf,       \* self._conf
    _db,         \* self._db: "None" or "local"
    _providers,  \* self._providers: key -> storage provider
    files,       \* the metadata database: name -> CloudFile
    objects,     \* what each storage service holds: name -> content
    result,      \* what the last command did, as its caller observes it
    clean        \* no add or delete has raised so far

vars == <<phase, _conf, _db, _providers, files, objects, result, clean>>

EmptyMap == [k \in {} |-> 0]

\* f with key k bound to v.
Put(f, k, v) == [j \in DOMAIN f \cup {k} |-> IF j = k THEN v ELSE f[j]]

\* f without key k.
Drop(f, k) == [j \in DOMAIN f \ {k} |-> f[j]]

Names == {p[Len(p)] : p \in Paths}

\* -------------------------------------------------- collaborators (spec.md)

\* The name a storage provider gives an uploaded file: the last path component.
Basename(path) == path[Len(path)]

\* The locator a storage provider derives for an object it holds.
Url(service, name) == <<service, name>>

\* The metadata record (TrackedFile): name, owning service, size, locator.
CloudFile(name, service, content) ==
    [name |-> name, service |-> service, size |-> Len(content),
     url |-> Url(service, name)]

\* LocalDBProvider.get: the record of that name, or none.
\* (A set of at most one record stands for "CloudFile or None".)
DbGet(db, file_name) ==
    IF file_name \in DOMAIN db THEN {db[file_name]} ELSE {}

\* LocalDBProvider.add: inserts, or replaces the record of the same name.
DbAdd(db, cloud_file) == Put(db, cloud_file.name, cloud_file)

\* LocalDBProvider.delete: removes the record's entry.
DbDelete(db, cloud_file) == Drop(db, cloud_file.name)

\* LocalDBProvider.list_files: all records.
DbList(db) == {db[n] : n \in DOMAIN db}

\* What the environment does to one provider call.  An upload reads a source
\* file that exists with some content ("ok"), that does not exist
\* ("missing"), or the transfer fails ("fail").
AddEnvs ==
    [kind : {"ok"}, content : Contents]
        \cup [kind : {"missing", "fail"}, content : {<<>>}]

\* A download or a removal goes through or fails.
Nets == {"ok", "fail"}

\* <Storage>Provider.add(file_path): stores the file under its name and
\* returns its record; raises when the source is missing or the transfer fails.
StorageAdd(b, objs, file_path, env) ==
    LET name == Basename(file_path) IN
    IF env.kind = "ok"
    THEN [ok |-> TRUE, error |-> "ok",
          rec |-> {CloudFile(name, b, env.content)},
          objects |-> [objs EXCEPT ![b] = Put(objs[b], name, env.content)]]
    ELSE [ok |-> FALSE,
          error |-> IF env.kind = "missing" THEN "NotFound" ELSE "TransferFailure",
          rec |-> {}, objects |-> objs]

\* <Storage>Provider.get(cloud_file, dest_folder): the object's content, written
\* into dest_folder; raises when the object is gone or the transfer fails.
StorageGet(b, objs, cloud_file, dest_folder, net) ==
    IF net = "ok" /\ cloud_file.name \in DOMAIN objs[b]
    THEN [ok |-> TRUE,
          delivered |-> {[folder |-> dest_folder, name |-> cloud_file.name,
                          content |-> objs[b][cloud_file.name]]}]
    ELSE [ok |-> FALSE, delivered |-> {}]

\* <Storage>Provider.delete(cloud_file): removes the object; raises when the
\* removal fails.
StorageDelete(b, objs, cloud_file, net) ==
    IF net = "ok"
    THEN [ok |-> TRUE, objects |-> [objs EXCEPT ![b] = Drop(objs[b], cloud_file.name)]]
    ELSE [ok |-> FALSE, objects |-> objs]

\* ------------------------------------------------------------ observations

\* One call on a collaborator, in the order the handler makes them.
Call(target, method, name) == [target |-> target, method |-> method, name |-> name]

\* The exit status of the process whose command ended this way
\* (data.py, __main__): an uncaught exception ends the interpreter with
\* status 1; `raise SystemExit` (line 104) carries no code, which is status 0.
ExitStatus(outcome) ==
    IF outcome \in {"ok", "SystemExit"} THEN 0 ELSE 1

\* How this command relates to the one before it, when both name the same file:
\*   "add"            the one before was a successful add
\*   "add_delete"     this is a get, the one before a successful delete that
\*                    itself came right after a successful add
\*   "delete_failed"  this is a delete, the one before a delete whose removal failed
\*   "get_missing"    this is a delete, the one before a get that found no record
PrevTag(op, name) ==
    IF result.name # name THEN "other"
    ELSE IF result.op = "add" /\ result.outcome = "ok" THEN "add"
    ELSE IF /\ op = "get" /\ result.op = "delete"
            /\ result.outcome = "ok" /\ result.prev = "add" THEN "add_delete"
    ELSE IF /\ op = "delete" /\ result.op = "delete"
            /\ result.outcome = "TransferFailure" THEN "delete_failed"
    ELSE IF /\ op = "delete" /\ result.op = "get"
            /\ result.outcome = "SystemExit" THEN "get_missing"
    ELSE "other"

\* What the caller of a command observes: the arguments, how it ended, the
\* calls it made on the database and the providers, what it returned, what it
\* wrote into the destination folder, whether it wrote to the terminal, and
\* (add) the content of the source file it was given.
Observed(op, name, provider, dest, outcome, calls, returned, delivered, printed, source) ==
    [op |-> op, name |-> name, provider |-> provider, dest |-> dest,
     outcome |-> outcome, exit |-> ExitStatus(outcome), calls |-> calls,
     returned |-> returned, delivered |-> delivered, printed |-> printed,
     source |-> source, prev |-> PrevTag(op, name)]

NoResult ==
    [op |-> "none", name |-> "None", provider |-> "None", dest |-> "None",
     outcome |-> "ok", exit |-> 0, calls |-> <<>>, returned |-> {},
     delivered |-> {}, printed |-> FALSE, source |-> {}, prev |-> "other"]

\* What a handler leaves behind.
Effect(res, db, objs) == [result |-> res, files |-> db, objects |-> objs]

\* ---------------------------------------------------------------- handlers

\* Faulty variant of Registered: azure is registered whenever service.azure is
\* there, without looking at its credentials.
RegisteredWithoutCredentials(c) ==
    LET withLocal == IF c.local THEN Put(_providers, "local", "local") ELSE _providers
    IN  IF c.azure # "absent" THEN Put(withLocal, "azure", "azure") ELSE withLocal

\* The providers registered by lines 46-58: local when its folder is set,
\* azure when service.azure is there with account and key.
Registered(c) ==
    LET withLocal == IF c.local THEN Put(_providers, "local", "local") ELSE _providers
    IN  IF c.azure = "full" THEN Put(withLocal, "azure", "azure") ELSE withLocal

\* Data.config: picks the database, registers the providers whose options are
\* there, and binds "default".  self._providers[default.service] raises
\* KeyError when that service was not registered.
Config(c) ==
    /\ phase = "constructed"
    /\ _conf' = c
    /\ _db' = IF c.db = "local" THEN "local" ELSE _db
    /\ LET registered == Registered(c) IN
       IF c.service \in DOMAIN registered
       THEN /\ _providers' = Put(registered, "default", registered[c.service])
            /\ phase' = "configured"
       ELSE /\ _providers' = registered
            /\ phase' = "failed"
    /\ UNCHANGED <<files, objects, result, clean>>

\* Faulty variant of ProviderKey: an absent SERVICE means 'local'.
ProviderKeyLocal(provider) == IF provider = "None" THEN "local" ELSE provider

\* `provider or 'default'` (line 86).
ProviderKey(provider) == IF provider = "None" THEN "default" ELSE provider

\* `dest_folder or '.'` (line 107).
DestFolder(dest_folder) == IF dest_folder = "None" THEN "." ELSE dest_folder

\* Faulty variant of OwningProvider: the default provider, whatever the record says.
DefaultProvider(cloud_file) == "default"

\* The key get and delete look the provider up by: `cloud_file.service`
\* (lines 108 and 121).
OwningProvider(cloud_file) == cloud_file.service

\* Faulty variant of UploadRaised: a record is written although the upload raised.
UploadRaisedButStored(b, name, env) == DbAdd(files, CloudFile(name, b, env.content))

\* The database after the provider's add raised in line 86: line 87 is not
\* reached.
UploadRaised(b, name, env) == files

\* Data.add
AddEffect(provider, file_path, env) ==
    LET name == Basename(file_path)
        key  == ProviderKey(provider)
        Obs(outcome, calls, returned, source) ==
            Observed("add", name, provider, "None", outcome, calls, returned, {},
                     FALSE, source)
    IN
    IF key \notin DOMAIN _providers
    THEN Effect(Obs("KeyError", <<>>, {}, {}), files, objects)
    ELSE
    LET b  == _providers[key]
        up == StorageAdd(b, objects, file_path, env)
    IN
    IF ~up.ok
    THEN Effect(Obs(up.error, <<Call(b, "add", name)>>, {}, {}),
                UploadRaised(b, name, env), up.objects)
    ELSE IF _db = "None"
    THEN Effect(Obs("AttributeError", <<Call(b, "add", name)>>, {}, {env.content}),
                files, up.objects)
    ELSE
    LET new_cloud_file == CHOOSE f \in up.rec : TRUE IN
    Effect(Obs("ok", <<Call(b, "add", name), Call("db", "add", name)>>, up.rec,
               {env.content}),
           DbAdd(files, new_cloud_file), up.objects)

\* Faulty variant of FilesAfterGet: get drops the record of the file it fetched.
FilesAfterGetMoved(cloud_file) == DbDelete(files, cloud_file)

\* The database after get: lines 99-108 read it and never write it.
FilesAfterGet(cloud_file) == files

\* Data.get
GetEffect(file_name, dest_folder, net) ==
    LET Obs(outcome, calls, delivered, printed) ==
            Observed("get", file_name, "None", dest_folder, outcome, calls, {},
                     delivered, printed, {})
    IN
    IF _db = "None"
    THEN Effect(Obs("AttributeError", <<>>, {}, FALSE), files, objects)
    ELSE
    LET found == DbGet(files, file_name) IN
    IF found = {}
    THEN Effect(Obs("SystemExit", <<Call("db", "get", file_name)>>, {}, TRUE),
                files, objects)
    ELSE
    LET cloud_file == CHOOSE f \in found : TRUE
        key == OwningProvider(cloud_file)
    IN
    IF key \notin DOMAIN _providers
    THEN Effect(Obs("KeyError", <<Call("db", "get", file_name)>>, {}, FALSE),
                files, objects)
    ELSE
    LET b    == _providers[key]
        down == StorageGet(b, objects, cloud_file, DestFolder(dest_folder), net)
        calls == <<Call("db", "get", file_name), Call(b, "get", file_name)>>
    IN
    Effect(Obs(IF down.ok THEN "ok" ELSE "TransferFailure", calls,
               down.delivered, FALSE),
           FilesAfterGet(cloud_file), objects)

\* Faulty variant of DeleteNotFound: delete of an unknown name returns quietly.
DeleteNotFoundSilent(file_name) ==
    Effect(Observed("delete", file_name, "None", "None", "ok",
                    <<Call("db", "get", file_name)>>, {}, {}, FALSE, {}),
           files, objects)

\* Lines 118-119: no record of that name, delete raises.
DeleteNotFound(file_name) ==
    Effect(Observed("delete", file_name, "None", "None", "Exception",
                    <<Call("db", "get", file_name)>>, {}, {}, FALSE, {}),
           files, objects)

\* Faulty variant of RemoveRaised: the record is dropped although the removal raised.
RemoveRaisedButDropped(cloud_file) == DbDelete(files, cloud_file)

\* The database after the provider's delete raised in line 121: line 122 is
\* not reached.
RemoveRaised(cloud_file) == files

\* Faulty variant of Removed: the record is kept after the object was removed.
NotRemoved(cloud_file) == files

\* Line 122: self._db.delete(cloud_file).
Removed(cloud_file) == DbDelete(files, cloud_file)

\* Data.delete
DeleteEffect(file_name, net) ==
    LET Obs(outcome, calls) ==
            Observed("delete", file_name, "None", "None", outcome, calls, {}, {},
                     FALSE, {})
    IN
    IF _db = "None"
    THEN Effect(Obs("AttributeError", <<>>), files, objects)
    ELSE
    LET found == DbGet(files, file_name) IN
    IF found = {}
    THEN DeleteNotFound(file_name)
    ELSE
    LET cloud_file == CHOOSE f \in found : TRUE
        key == OwningProvider(cloud_file)
    IN
    IF key \notin DOMAIN _providers
    THEN Effect(Obs("KeyError", <<Call("db", "get", file_name)>>), files, objects)
    ELSE
    LET b  == _providers[key]
        rm == StorageDelete(b, objects, cloud_file, net)
    IN
    IF ~rm.ok
    THEN Effect(Obs("TransferFailure",
                    <<Call("db", "get", file_name), Call(b, "delete", file_name)>>),
                RemoveRaised(cloud_file), rm.objects)
    ELSE Effect(Obs("ok", <<Call("db", "get", file_name), Call(b, "delete", file_name),
                            Call("db", "delete", file_name)>>),
                Removed(cloud_file), rm.objects)

\* Data.ls: writes the header and one row per record, returns the records.
LsEffect ==
    IF _db = "None"
    THEN Effect(Observed("ls", "None", "None", "None", "AttributeError", <<>>, {},
                         {}, FALSE, {}),
                files, objects)
    ELSE Effect(Observed("ls", "None", "None", "None", "ok",
                         <<Call("db", "list_files", "None")>>, DbList(files), {},
                         TRUE, {}),
                files, objects)

\* A command run on the configured object.  clean records that no add and no
\* delete has raised so far.
Run(e) ==
    /\ phase = "configured"
    /\ result' = e.result
    /\ files' = e.files
    /\ objects' = e.objects
    /\ clean' = (clean /\ (e.result.op \in {"add", "delete"} => e.result.outcome = "ok"))
    /\ UNCHANGED <<phase, _conf, _db, _providers>>

Add ==
    \E provider \in Providers, file_path \in Paths, env \in AddEnvs :
        Run(AddEffect(provider, file_path, env))

Get ==
    \E file_name \in Names, dest_folder \in DestFolders, net \in Nets :
        Run(GetEffect(file_name, dest_folder, net))

Delete ==
    \E file_name \in Names, net \in Nets : Run(DeleteEffect(file_name, net))

Ls == Run(LsEffect)

Configure == \E c \in Confs : Config(c)

\* Data.__init__, with an empty database and empty storage services.
Init ==
    /\ phase = "constructed"
    /\ _conf = NoConf
    /\ _db = "None"
    /\ _providers = EmptyMap
    /\ files = EmptyMap
    /\ objects = [b \in Backends |-> EmptyMap]
    /\ result = NoResult
    /\ clean = TRUE

Next == Configure \/ Add \/ Get \/ Delete \/ Ls

Spec == Init /\ [][Next]_vars

\* ================================================================== claims

\* The spec's error kinds, as data.py signals them.
\* NotFound: get writes its message and raises SystemExit (lines 102-104),
\* delete raises Exception (lines 118-119).
SignalsNotFound(r) ==
    \/ r.op = "get" /\ r.outcome = "SystemExit" /\ r.printed
    \/ r.op = "delete" /\ r.outcome = "Exception"

\* The calls a command made on storage providers.
BackendCalls(r) == {i \in DOMAIN r.calls : r.calls[i].target \in Backends}

\* The upload of an add was attempted and raised.
UploadFailed(r) ==
    /\ r.op = "add"
    /\ r.outcome \in {"NotFound", "TransferFailure"}
    /\ BackendCalls(r) # {}

\* The services whose required options the configuration holds.
Configured ==
    {b \in Backends : \/ b = "local" /\ _conf.local
                      \/ b = "azure" /\ _conf.azure = "full"}

\* The add names a service, and the configuration holds no provider for it.
Unconfigured(provider) == provider # "None" /\ provider \notin Configured

\* C1: when the upload of an add raises, the metadata database after the call
\* holds exactly the records it held before.
C1_FailedUploadWritesNoMetadata ==
    [][UploadFailed(result') => files' = files]_vars

\* An upload failed while the database already held a record.
C1_Witness ==
    /\ UploadFailed(result)
    /\ files # EmptyMap
    /\ result.name \notin DOMAIN files

\* C2: delete of a tracked name calls the owning provider's delete before the
\* database's delete; when the provider's delete raises, the database is left
\* as it was, and a delete of the same name right after finds the record again
\* and calls the provider again.
C2_DeleteRemovesRemoteFirst ==
    [][/\ (result'.op = "delete" /\ result'.name \in DOMAIN files)
            => LET n == result'.name
                   b == files[n].service
               IN  /\ result'.outcome = "ok"
                        => result'.calls = <<Call("db", "get", n), Call(b, "delete", n),
                                             Call("db", "delete", n)>>
                   /\ result'.outcome = "TransferFailure"
                        => /\ files' = files
                           /\ result'.calls = <<Call("db", "get", n), Call(b, "delete", n)>>
       /\ (/\ result.op = "delete" /\ result.outcome = "TransferFailure"
           /\ result'.op = "delete" /\ result'.name = result.name)
            => /\ ~SignalsNotFound(result')
               /\ BackendCalls(result') # {}
      ]_vars

\* A delete whose removal failed was tried again and went through.
C2_Witness ==
    /\ result.op = "delete"
    /\ result.prev = "delete_failed"
    /\ result.outcome = "ok"

\* C3: with a metadata database configured, get and delete of a name the
\* database does not hold signal NotFound, call no storage provider, and leave
\* the database and the stored objects as they were.
C3_UntrackedNameIsNotFound ==
    [][(/\ result'.op \in {"get", "delete"}
        /\ result'.name \notin DOMAIN files
        /\ _db = "local")
            => /\ SignalsNotFound(result')
               /\ BackendCalls(result') = {}
               /\ result'.delivered = {}
               /\ files' = files
               /\ objects' = objects
      ]_vars

\* An untracked name was asked for by get and then by delete, both refused,
\* while a storage service holds an object of that name and the database holds
\* another record.
C3_Witness ==
    /\ result.op = "delete"
    /\ result.prev = "get_missing"
    /\ SignalsNotFound(result)
    /\ files # EmptyMap
    /\ \E b \in Backends : result.name \in DOMAIN objects[b]

\* C4: a get right after a successful add of the same name finds the record;
\* when it completes, it has downloaded from the provider the add uploaded to
\* (the record's service) and has written, into the destination folder, exactly
\* the content of the file that was added.
C4_AddThenGetRoundTrip ==
    [][(/\ result.op = "add" /\ result.outcome = "ok"
        /\ result'.op = "get" /\ result'.name = result.name)
            => LET n == result.name IN
               /\ ~SignalsNotFound(result')
               /\ result'.outcome = "ok"
                    => \E rec \in result.returned, c \in result.source :
                        /\ result.calls[1] = Call(rec.service, "add", n)
                        /\ result'.calls = <<Call("db", "get", n),
                                             Call(rec.service, "get", n)>>
                        /\ result'.delivered =
                              {[folder |-> DestFolder(result'.dest), name |-> n,
                                content |-> c]}
      ]_vars

\* A get completed right after an add to a service that is not the default,
\* while the default service holds an object of the same name with another
\* content and the database holds a record of another name.
C4_Witness ==
    /\ result.op = "get"
    /\ result.prev = "add"
    /\ result.outcome = "ok"
    /\ result.name \in DOMAIN files
    /\ files[result.name].service # _providers["default"]
    /\ result.name \in DOMAIN objects[_providers["default"]]
    /\ \A d \in result.delivered :
          d.content # objects[_providers["default"]][result.name]
    /\ DOMAIN files # {result.name}

\* C5: a successful delete right after a successful add of the same name
\* leaves no record of the name and no object of it on the service the add
\* uploaded to; a get of the name right after that signals NotFound, calls no
\* provider and delivers nothing.
C5_AddDeleteThenGetNotFound ==
    [][/\ (/\ result.op = "add" /\ result.outcome = "ok"
           /\ result'.op = "delete" /\ result'.name = result.name
           /\ result'.outcome = "ok")
            => /\ result.name \notin DOMAIN files'
               /\ \A rec \in result.returned :
                     result.name \notin DOMAIN objects'[rec.service]
       /\ (/\ result.op = "delete" /\ result.outcome = "ok" /\ result.prev = "add"
           /\ result'.op = "get" /\ result'.name = result.name)
            => /\ SignalsNotFound(result')
               /\ BackendCalls(result') = {}
               /\ result'.delivered = {}
      ]_vars

\* add, delete, get of one name in a row; the get was refused.
C5_Witness ==
    /\ result.op = "get"
    /\ result.prev = "add_delete"
    /\ SignalsNotFound(result)

\* C6: an add without SERVICE uploads to the service named by default.service,
\* and the record it returns and stores names that service.
C6_DefaultBackend ==
    (result.op = "add" /\ result.provider = "None")
        => /\ \A i \in BackendCalls(result) : result.calls[i].target = _conf.service
           /\ result.outcome = "ok"
                => /\ BackendCalls(result) # {}
                   /\ result.returned # {}
                   /\ \A rec \in result.returned :
                        /\ rec.service = _conf.service
                        /\ result.name \in DOMAIN files
                        /\ files[result.name] = rec

\* An add without SERVICE succeeded where both services are configured and the
\* default is azure.
C6_Witness ==
    /\ result.op = "add"
    /\ result.provider = "None"
    /\ result.outcome = "ok"
    /\ _conf.service = "azure"
    /\ _conf.local

\* C7: an add that names a service the configuration registers no provider
\* for raises KeyError (the lookup in self._providers), uploads nothing, and
\* leaves the database and the stored objects as they were.
C7_UnconfiguredBackend ==
    [][(result'.op = "add" /\ Unconfigured(result'.provider))
            => /\ result'.outcome = "KeyError"
               /\ result'.calls = <<>>
               /\ result'.returned = {}
               /\ files' = files
               /\ objects' = objects
      ]_vars

\* add azure FILE where service.azure is there without its credentials, with
\* records in the database.
C7_Witness ==
    /\ result.op = "add"
    /\ result.provider = "azure"
    /\ _conf.azure = "nokey"
    /\ result.outcome = "KeyError"
    /\ files # EmptyMap

\* C8: get of an untracked FILE writes the not-found message and ends the
\* process with a non-zero exit status.
C8_GetUntrackedExitsNonZero ==
    (/\ result.op = "get"
     /\ _db = "local"
     /\ result.name \notin DOMAIN files)
        => /\ result.printed
           /\ result.exit # 0

\* C9 as claimed: a record appears only by a successful add (upload, then
\* database add), disappears only by a successful delete (provider delete,
\* then database delete), and while a name has a record the record never
\* changes.
C9_RecordNeverMutated ==
    [][\A n \in Names :
        /\ (n \notin DOMAIN files /\ n \in DOMAIN files')
             => /\ result'.op = "add" /\ result'.outcome = "ok" /\ result'.name = n
                /\ files'[n] \in result'.returned
                /\ result'.calls = <<Call(files'[n].service, "add", n),
                                     Call("db", "add", n)>>
        /\ (n \in DOMAIN files /\ n \notin DOMAIN files')
             => /\ result'.op = "delete" /\ result'.outcome = "ok" /\ result'.name = n
                /\ result'.calls = <<Call("db", "get", n),
                                     Call(files[n].service, "delete", n),
                                     Call("db", "delete", n)>>
        /\ (n \in DOMAIN files /\ n \in DOMAIN files') => files'[n] = files[n]
      ]_vars

\* C9 as amended: a record appears only by a successful add, disappears only
\* by a successful delete, and while a name has a record the record changes
\* only by a successful add of the same name, which replaces it by the record
\* of the new upload; get, ls, delete and failed commands change no record.
C9_RecordLifecycle ==
    [][\A n \in Names :
        /\ (n \notin DOMAIN files /\ n \in DOMAIN files')
             => /\ result'.op = "add" /\ result'.outcome = "ok" /\ result'.name = n
                /\ files'[n] \in result'.returned
                /\ result'.calls = <<Call(files'[n].service, "add", n),
                                     Call("db", "add", n)>>
        /\ (n \in DOMAIN files /\ n \notin DOMAIN files')
             => /\ result'.op = "delete" /\ result'.outcome = "ok" /\ result'.name = n
                /\ result'.calls = <<Call("db", "get", n),
                                     Call(files[n].service, "delete", n),
                                     Call("db", "delete", n)>>
        /\ (n \in DOMAIN files /\ n \in DOMAIN files' /\ files'[n] # files[n])
             => /\ result'.op = "add" /\ result'.outcome = "ok" /\ result'.name = n
                /\ files'[n] \in result'.returned
                /\ result'.calls = <<Call(files'[n].service, "add", n),
                                     Call("db", "add", n)>>
      ]_vars

\* A successful add has replaced the record of a tracked name: the record now
\* names another service and another size than the stored object of the
\* first upload.
C9_Witness ==
    /\ result.op = "add"
    /\ result.outcome = "ok"
    /\ \E b \in Backends :
          /\ b # files[result.name].service
          /\ result.name \in DOMAIN objects[b]
          /\ Len(objects[b][result.name]) # files[result.name].size
    /\ clean

\* C10: as long as every add and delete so far completed without error, a
\* storage service holds an object named X exactly when the database has a
\* record named X whose service is that one.
C10_IndexMatchesBackends ==
    clean => \A b \in Backends, n \in Names :
                n \in DOMAIN objects[b]
                    <=> (n \in DOMAIN files /\ files[n].service = b)

====
